---- MODULE Spec2Model ----
(***************************************************************************)
(* Request-validation middleware of zod-express (src/src/index.ts).         *)
(*                                                                         *)
(* One middleware instance is built from a schema set and an options       *)
(* record by one of the four entry points (validateRequest,                *)
(* validateRequestAsync, processRequest, processRequestAsync; the          *)
(* single-slot forms are the same handlers with one slot populated).       *)
(* NumReq requests are handled by that instance.  A synchronous handler    *)
(* runs in one step; an asynchronous handler suspends at every             *)
(* safeParseAsync call and invocations interleave at those points.         *)
(***************************************************************************)
EXTENDS Integers, Sequences, FiniteSets, TLC

\* Number of requests handled by the middleware instance.
NumReq == 2

\* HTTP status written by the default responder.
StatusBadRequest == 400

Invocations == 1..NumReq

Slots == <<"params", "query", "body">>

SlotSet == {"params", "query", "body"}

Variants == {"validateRequest", "validateRequestAsync", "processRequest", "processRequestAsync"}

AsyncVariants == {"validateRequestAsync", "processRequestAsync"}

ProcessVariants == {"processRequest", "processRequestAsync"}

\* Raw field values a request can carry.
RawValues == {"42", ""}


\* The schema a route uses for each slot, when it configures one:
\*   numericId    z.string().regex(/^\d+$/).transform(Number)
\*   csvList      z.string().min(1).transform(s => s.split(","))
\*   literal42    z.literal("42")
SlotSchema(slot) ==
    CASE slot = "params" -> "numericId"
      [] slot = "query" -> "csvList"
      [] slot = "body" -> "literal42"

VARIABLES variant, schemas, options, invs

vars == <<variant, schemas, options, invs>>

\* The requests that reach the middleware.  A field that no schema is
\* configured for is never read by the handlers; it takes one value.
AllRequests == [SlotSet -> RawValues]

IsRequest(r) == \A s \in SlotSet : schemas[s] = "none" => r[s] = "42"

----------------------------------------------------------------------------
\* The schema engine: parse of an input value by a schema.  The result is
\* {success: true, data} or {success: false, error}.

Success(data) == [success |-> TRUE, data |-> data, error |-> "undefined"]

Failure(error) == [success |-> FALSE, data |-> "undefined", error |-> error]

safeParse(schema, input) ==
    CASE schema = "numericId" ->
           IF input = "42" THEN Success("num:42") ELSE Failure("invalid_string")
      [] schema = "csvList" ->
           IF input = "42" THEN Success("list:42") ELSE Failure("too_small")
      [] schema = "literal42" ->
           IF input = "42" THEN Success("42") ELSE Failure("invalid_literal")

----------------------------------------------------------------------------
\* Typed errors.

InvalidParamsError(error) ==
    [name |-> "InvalidParamsError", message |-> "Invalid params", zodError |-> error]

InvalidQueryError(error) ==
    [name |-> "InvalidQueryError", message |-> "Invalid query params", zodError |-> error]

InvalidBodyError(error) ==
    [name |-> "InvalidBodyError", message |-> "Invalid data", zodError |-> error]

\* The error class each slot's branch constructs.
InvalidSlotError(slot, error) ==
    CASE slot = "params" -> InvalidParamsError(error)
      [] slot = "query" -> InvalidQueryError(error)
      [] slot = "body" -> InvalidBodyError(error)

\* The ErrorListItem type tag each slot's branch pushes.
ErrorType(slot) ==
    CASE slot = "params" -> "Params"
      [] slot = "query" -> "Query"
      [] slot = "body" -> "Body"

----------------------------------------------------------------------------
\* One invocation of the handler: (req, res, next) and its local `errors`.
\*   pc       "idle" (not yet called), "await" (suspended in a parse), "done"
\*   awaiting index in Slots of the parse in flight (0: none)
\*   pending  the result the parse in flight settles with
\*   raw      the request as it arrived
\*   req      the request object, mutated in place
\*   errors   the accumulator
\*   res      the response: status code and the bodies sent
\*   log      what the handler did, in order: parse calls, their settling,
\*            and calls of next, the responders, and throws; each terminal
\*            entry carries the request as it is at that moment

NoError == [name |-> "", message |-> "", zodError |-> ""]

Event(kind) ==
    [kind |-> kind, slot |-> "", args |-> <<>>, status |-> 0, body |-> <<>>,
     error |-> NoError, req |-> [s \in SlotSet |-> ""]]

IdleInvocation ==
    [pc |-> "idle", awaiting |-> 0, pending |-> Failure("undefined"),
     raw |-> [s \in SlotSet |-> ""], req |-> [s \in SlotSet |-> ""],
     errors |-> <<>>, res |-> [statusCode |-> 0, sent |-> <<>>], log |-> <<>>]

\* The handler is entered with a request; `const errors = []`.
NewInvocation(r) ==
    [IdleInvocation EXCEPT !.pc = "run", !.raw = r, !.req = r]

Emit(iv, i, ev) == [iv EXCEPT ![i].log = Append(@, ev)]

\* Variant: the accumulator declared in the factory, one array for all
\* invocations of the instance.
pushErrorShared(iv, i, item) ==
    [j \in DOMAIN iv |-> [iv[j] EXCEPT !.errors = Append(@, item)]]

\* errors.push(item)
pushError(iv, i, item) ==
    [iv EXCEPT ![i].errors = Append(@, item)]

\* throw err: the handler ends here.
Throw(iv, i, err) ==
    [Emit(iv, i, [Event("throw") EXCEPT !.error = err, !.req = iv[i].req])
       EXCEPT ![i].pc = "done"]

\* next(...args)
next(iv, i, args) ==
    Emit(iv, i, [Event("next") EXCEPT !.args = args, !.req = iv[i].req])

\* Variant: only the first error is reported.
sendErrorsFirstOnly(errors, res) ==
    [statusCode |-> StatusBadRequest,
     sent |-> Append(res.sent, <<[type |-> errors[1].type, errors |-> errors[1].errors]>>)]

\* The default responder: res.status(400).send(errors.map(...)).
sendErrors(errors, res) ==
    [statusCode |-> StatusBadRequest,
     sent |-> Append(res.sent,
                [k \in 1..Len(errors) |-> [type |-> errors[k].type, errors |-> errors[k].errors]])]

\* A call of the default responder on the invocation's response.
Respond(iv, i, errors) ==
    LET r == sendErrors(errors, iv[i].res)
    IN  Emit([iv EXCEPT ![i].res = r], i,
             [Event("send") EXCEPT !.status = r.statusCode, !.body = r.sent[Len(r.sent)],
                                   !.req = iv[i].req])

\* A call of the custom callback options.sendErrors(errors, res).
CallCustom(iv, i, errors) ==
    Emit(iv, i, [Event("custom") EXCEPT !.args = <<errors>>, !.req = iv[i].req])

----------------------------------------------------------------------------
\* What the handlers do with one slot's parse result.

\* Variant: throwErrors ignored, the failure is accumulated.
validateSlotNoThrow(iv, i, slot, parsed) ==
    IF ~parsed.success
    THEN pushError(iv, i, [type |-> ErrorType(slot), errors |-> parsed.error])
    ELSE iv

\* validateRequest, validateRequestAsync
validateSlot(iv, i, slot, parsed) ==
    IF ~parsed.success
    THEN IF options.throwErrors
         THEN Throw(iv, i, InvalidSlotError(slot, parsed.error))
         ELSE pushError(iv, i, [type |-> ErrorType(slot), errors |-> parsed.error])
    ELSE iv

\* Variant: the parsed value is not written back.
processSlotNoAssign(iv, i, slot, parsed) ==
    validateSlot(iv, i, slot, parsed)

\* Variant: parsed.data is written back before parsed.success is tested.
processSlotAlwaysAssign(iv, i, slot, parsed) ==
    validateSlot([iv EXCEPT ![i].req[slot] = parsed.data], i, slot, parsed)

\* processRequest, processRequestAsync
processSlot(iv, i, slot, parsed) ==
    IF parsed.success
    THEN [iv EXCEPT ![i].req[slot] = parsed.data]
    ELSE IF options.throwErrors
         THEN Throw(iv, i, InvalidSlotError(slot, parsed.error))
         ELSE pushError(iv, i, [type |-> ErrorType(slot), errors |-> parsed.error])

checkSlot(iv, i, slot, parsed) ==
    IF variant \in ProcessVariants
    THEN processSlot(iv, i, slot, parsed)
    ELSE validateSlot(iv, i, slot, parsed)

----------------------------------------------------------------------------
\* The end of the handlers, after the three slots.

\* Variant: the custom responder is tested before passErrorToNext.
validateFinishCustomFirst(iv, i) ==
    LET errors == iv[i].errors
    IN  IF Len(errors) > 0 /\ options.sendErrors
        THEN CallCustom(iv, i, errors)
        ELSE IF Len(errors) > 0 /\ options.passErrorToNext
        THEN next(iv, i, <<errors>>)
        ELSE IF Len(errors) > 0
        THEN Respond(iv, i, errors)
        ELSE next(iv, i, <<>>)

\* Variant: the responder branch is not guarded by errors.length > 0.
validateFinishAlwaysRespond(iv, i) ==
    LET errors == iv[i].errors
    IN  IF Len(errors) > 0 /\ options.passErrorToNext
        THEN next(iv, i, <<errors>>)
        ELSE IF options.sendErrors
             THEN CallCustom(iv, i, errors)
             ELSE Respond(iv, i, errors)

\* validateRequest, validateRequestAsync
validateFinish(iv, i) ==
    LET errors == iv[i].errors
    IN  IF Len(errors) > 0 /\ options.passErrorToNext
        THEN next(iv, i, <<errors>>)
        ELSE IF Len(errors) > 0
        THEN IF options.sendErrors
             THEN CallCustom(iv, i, errors)
             ELSE Respond(iv, i, errors)
        ELSE next(iv, i, <<>>)

\* Variant: next(errors) without return, the handler goes on.
processFinishFallThrough(iv, i) ==
    LET errors == iv[i].errors
        iv1 == IF Len(errors) > 0 /\ options.passErrorToNext
               THEN next(iv, i, <<errors>>)
               ELSE iv
    IN  IF Len(errors) > 0
        THEN Respond(iv1, i, errors)
        ELSE next(iv1, i, <<>>)

\* processRequest, processRequestAsync: both branches on options.sendErrors
\* call the module's default responder.
processFinish(iv, i) ==
    LET errors == iv[i].errors
    IN  IF Len(errors) > 0 /\ options.passErrorToNext
        THEN next(iv, i, <<errors>>)
        ELSE IF Len(errors) > 0
        THEN IF options.sendErrors
             THEN Respond(iv, i, errors)
             ELSE Respond(iv, i, errors)
        ELSE next(iv, i, <<>>)

finish(iv, i) ==
    LET iv1 == IF variant \in ProcessVariants THEN processFinish(iv, i) ELSE validateFinish(iv, i)
    IN  [iv1 EXCEPT ![i].pc = "done"]

----------------------------------------------------------------------------
\* The body of a handler from slot number k on.  A synchronous handler
\* parses and goes on; an asynchronous one suspends in the parse.

\* The parse call on the slot's request field.
startParse(iv, i, k) ==
    [Emit(iv, i, [Event("parse") EXCEPT !.slot = Slots[k]])
       EXCEPT ![i].awaiting = k,
              ![i].pending = safeParse(schemas[Slots[k]], iv[i].req[Slots[k]])]

\* The parse call returns (the awaited promise settles) and its branch runs.
endParse(iv, i) ==
    LET k == iv[i].awaiting
        iv1 == [Emit(iv, i, [Event("settled") EXCEPT !.slot = Slots[k]])
                  EXCEPT ![i].awaiting = 0]
    IN  checkSlot(iv1, i, Slots[k], iv[i].pending)

\* Variant: the remaining slots are skipped once a failure is accumulated.
followingSlotStopOnError(iv, i, k) ==
    IF Len(iv[i].errors) > 0 THEN Len(Slots) + 1 ELSE k + 1

\* The slot the handler turns to after slot k's branch.
followingSlot(iv, i, k) == k + 1

RECURSIVE runFrom(_, _, _)
runFrom(iv, i, k) ==
    IF iv[i].pc = "done"
    THEN iv
    ELSE IF k > Len(Slots)
    THEN finish(iv, i)
    ELSE IF schemas[Slots[k]] = "none"
    THEN runFrom(iv, i, k + 1)
    ELSE IF variant \in AsyncVariants
    THEN [startParse(iv, i, k) EXCEPT ![i].pc = "await"]
    ELSE LET iv1 == endParse(startParse(iv, i, k), i)
         IN  runFrom(iv1, i, followingSlot(iv1, i, k))

\* The handler is called with request r.
handle(iv, i, r) ==
    runFrom([iv EXCEPT ![i] = NewInvocation(r)], i, 1)

\* A suspended handler goes on when its parse has settled.
resume(iv, i) ==
    LET k == iv[i].awaiting
        iv1 == endParse([iv EXCEPT ![i].pc = "run"], i)
    IN  runFrom(iv1, i, followingSlot(iv1, i, k))

----------------------------------------------------------------------------
\* The state machine.

OptionSets ==
    [throwErrors : BOOLEAN, passErrorToNext : BOOLEAN, sendErrors : BOOLEAN]

SchemaSets ==
    {f \in [SlotSet -> {"none", "numericId", "csvList", "literal42"}] :
        \A s \in SlotSet : f[s] \in {"none", SlotSchema(s)}}

Init ==
    /\ variant \in Variants
    /\ schemas \in SchemaSets
    /\ options \in OptionSets
    /\ invs = [i \in Invocations |-> IdleInvocation]

\* Requests are numbered in the order they reach the middleware.
Arrives(i) ==
    /\ invs[i].pc = "idle"
    /\ \A j \in Invocations : j < i => invs[j].pc # "idle"

HandleValidateRequest(i, r) ==
    /\ variant = "validateRequest"
    /\ Arrives(i)
    /\ IsRequest(r)
    /\ invs' = handle(invs, i, r)
    /\ UNCHANGED <<variant, schemas, options>>

HandleProcessRequest(i, r) ==
    /\ variant = "processRequest"
    /\ Arrives(i)
    /\ IsRequest(r)
    /\ invs' = handle(invs, i, r)
    /\ UNCHANGED <<variant, schemas, options>>

HandleValidateRequestAsync(i, r) ==
    /\ variant = "validateRequestAsync"
    /\ Arrives(i)
    /\ IsRequest(r)
    /\ invs' = handle(invs, i, r)
    /\ UNCHANGED <<variant, schemas, options>>

HandleProcessRequestAsync(i, r) ==
    /\ variant = "processRequestAsync"
    /\ Arrives(i)
    /\ IsRequest(r)
    /\ invs' = handle(invs, i, r)
    /\ UNCHANGED <<variant, schemas, options>>

Settle(i) ==
    /\ invs[i].pc = "await"
    /\ invs' = resume(invs, i)
    /\ UNCHANGED <<variant, schemas, options>>

Next ==
    \E i \in Invocations :
        \/ \E r \in AllRequests : HandleValidateRequest(i, r)
        \/ \E r \in AllRequests : HandleProcessRequest(i, r)
        \/ \E r \in AllRequests : HandleValidateRequestAsync(i, r)
        \/ \E r \in AllRequests : HandleProcessRequestAsync(i, r)
        \/ Settle(i)

Spec == Init /\ [][Next]_vars

----------------------------------------------------------------------------
\* Vocabulary of the properties.

Configured(s) == schemas[s] # "none"

Started(i) == invs[i].pc # "idle"

Done(i) == invs[i].pc = "done"

\* The result of slot s's schema on the request as it arrived.
ParseOf(i, s) == safeParse(schemas[s], invs[i].raw[s])

Fails(i, s) == Configured(s) /\ ~ParseOf(i, s).success

Succeeds(i, s) == Configured(s) /\ ParseOf(i, s).success

SlotIndex(s) == CHOOSE k \in 1..Len(Slots) : Slots[k] = s

TagOf == [params |-> "Params", query |-> "Query", body |-> "Body"]

ErrorNameOf == [params |-> "InvalidParamsError", query |-> "InvalidQueryError", body |-> "InvalidBodyError"]

\* The failed slots of request i, in the order params, query, body.
FailedSlots(i) ==
    LET failed(s) == Fails(i, s)
    IN  SelectSeq(Slots, failed)

\* The list of {type, errors} entries of the failed slots.
ExpectedErrors(i) ==
    LET fs == FailedSlots(i)
    IN  [k \in 1..Len(fs) |-> [type |-> TagOf[fs[k]], errors |-> ParseOf(i, fs[k]).error]]

IsTerminal(ev) == ev.kind \in {"next", "send", "custom", "throw"}

Terminals(i) == SelectSeq(invs[i].log, IsTerminal)

EventsOfKind(i, kind) ==
    LET isKind(ev) == ev.kind = kind
    IN  SelectSeq(invs[i].log, isKind)

CountKind(i, kind) == Len(EventsOfKind(i, kind))

\* Slot s's parse has settled before position k of the log.
SettledBefore(i, s, k) ==
    \E b \in 1..(k - 1) : invs[i].log[b].kind = "settled" /\ invs[i].log[b].slot = s

IsPrefix(a, b) == Len(a) <= Len(b) /\ a = SubSeq(b, 1, Len(a))

NoResponse == [statusCode |-> 0, sent |-> <<>>]

\* Request r handled with no other request in the system: the completed
\* invocation (its log, error list, request fields and response).
HandledAlone(r) ==
    LET step(a) == IF a[0].pc = "await" THEN resume(a, 0) ELSE a
        a0 == handle([x \in {0} |-> IdleInvocation], 0, r)
        a1 == step(a0)
        a2 == step(a1)
        a3 == step(a2)
    IN  a3[0]

----------------------------------------------------------------------------
\* C1 (as claimed): for every entry point, whenever the continuation is
\* invoked, each configured slot whose parse succeeded holds the schema's
\* parsed output on the request.
C1_AllEntryPointsOverwrite ==
    \A i \in Invocations : \A k \in 1..Len(invs[i].log) :
        invs[i].log[k].kind = "next" =>
            \A s \in SlotSet :
                Succeeds(i, s) => invs[i].log[k].req[s] = ParseOf(i, s).data

\* C1 (amended): for middleware built by processRequest or processRequestAsync
\* (and their single-slot forms), whenever the continuation is invoked each
\* configured slot whose parse succeeded holds the schema's parsed output on
\* the request; middleware built by validateRequest or validateRequestAsync
\* never changes a request field.
C1_ProcessOverwrites ==
    \A i \in Invocations :
        IF variant \in ProcessVariants
        THEN \A k \in 1..Len(invs[i].log) :
                 invs[i].log[k].kind = "next" =>
                     \A s \in SlotSet :
                         Succeeds(i, s) => invs[i].log[k].req[s] = ParseOf(i, s).data
        ELSE /\ invs[i].req = invs[i].raw
             /\ \A k \in 1..Len(invs[i].log) :
                    IsTerminal(invs[i].log[k]) => invs[i].log[k].req = invs[i].raw

\* C1 witness: a processRequestAsync handler called the continuation with
\* params coerced from "42" to the number 42 and query split into a list.
C1_Witness ==
    \E i \in Invocations :
        /\ variant = "processRequestAsync"
        /\ Done(i)
        /\ Succeeds(i, "params") /\ Succeeds(i, "query")
        /\ invs[i].raw["params"] = "42"
        /\ CountKind(i, "next") = 1
        /\ EventsOfKind(i, "next")[1].req["params"] = "num:42"
        /\ EventsOfKind(i, "next")[1].req["query"] = "list:42"

\* C2 (as claimed): with throwErrors and passErrorToNext false and a failed
\* slot, a configured custom sendErrors callback is called exactly once with
\* the error list and the default 400 responder is not called; the default
\* responder is used only when no custom callback is configured.
C2_CustomResponderUsed ==
    (~options.throwErrors /\ ~options.passErrorToNext) =>
        \A i \in Invocations :
            (Done(i) /\ FailedSlots(i) # <<>>) =>
                IF options.sendErrors
                THEN /\ CountKind(i, "custom") = 1
                     /\ EventsOfKind(i, "custom")[1].args = <<ExpectedErrors(i)>>
                     /\ CountKind(i, "send") = 0
                     /\ invs[i].res.sent = <<>>
                ELSE /\ CountKind(i, "custom") = 0
                     /\ CountKind(i, "send") = 1

\* C3: with throwErrors and passErrorToNext false, no custom sendErrors and
\* a failed slot, one response with status 400 is sent, its body lists
\* exactly the failed slots with their native errors in the order Params,
\* Query, Body, and the continuation is not invoked; no invocation ever
\* sends more than one response.
C3_Default400Response ==
    \A i \in Invocations :
        /\ Len(invs[i].res.sent) <= 1
        /\ (/\ Done(i)
            /\ ~options.throwErrors /\ ~options.passErrorToNext /\ ~options.sendErrors) =>
               LET expected == ExpectedErrors(i)
                   terminals == Terminals(i)
               IN  expected # <<>> =>
                       /\ invs[i].res = [statusCode |-> 400, sent |-> <<expected>>]
                       /\ Len(terminals) = 1
                       /\ terminals[1].kind = "send"
                       /\ terminals[1].status = 400
                       /\ terminals[1].body = expected

\* C3 witness: params and body failed, query passed, and the 400 body has
\* the two entries Params then Body.
C3_Witness ==
    \E i \in Invocations :
        /\ Done(i)
        /\ ~options.throwErrors /\ ~options.passErrorToNext /\ ~options.sendErrors
        /\ FailedSlots(i) = <<"params", "body">>
        /\ Succeeds(i, "query")
        /\ invs[i].res.statusCode = 400
        /\ Len(invs[i].res.sent) = 1
        /\ Len(invs[i].res.sent[1]) = 2
        /\ invs[i].res.sent[1][1].type = "Params"
        /\ invs[i].res.sent[1][2].type = "Body"

\* C4: with passErrorToNext true, throwErrors false and a failed slot, the
\* continuation is invoked exactly once with exactly one argument, the list
\* of failed slots in the order Params, Query, Body; no response is written
\* and no responder, custom or default, is called.
C4_ForwardToNext ==
    (options.passErrorToNext /\ ~options.throwErrors) =>
        \A i \in Invocations :
            Done(i) =>
                LET expected == ExpectedErrors(i)
                    terminals == Terminals(i)
                IN  expected # <<>> =>
                        /\ Len(terminals) = 1
                        /\ terminals[1].kind = "next"
                        /\ Len(terminals[1].args) = 1
                        /\ terminals[1].args[1] = expected
                        /\ invs[i].res = NoResponse

\* C4 witness: a custom sendErrors is configured, query and body failed, and
\* the list was forwarded to the continuation.
C4_Witness ==
    \E i \in Invocations :
        /\ Done(i)
        /\ options.passErrorToNext /\ ~options.throwErrors /\ options.sendErrors
        /\ FailedSlots(i) = <<"query", "body">>
        /\ CountKind(i, "next") = 1
        /\ Len(EventsOfKind(i, "next")[1].args) = 1
        /\ Len(EventsOfKind(i, "next")[1].args[1]) = 2

\* C5: with throwErrors true, the first configured slot that fails (in the
\* order params, query, body) raises its typed error carrying the native
\* error, no later slot is parsed, no response is sent, no responder is
\* called and the continuation is not invoked; when no configured slot
\* fails the continuation is invoked with no argument.
C5_ThrowOnFirstFailure ==
    options.throwErrors =>
        \A i \in Invocations :
            LET failed == FailedSlots(i)
                terminals == Terminals(i)
                log == invs[i].log
            IN  /\ invs[i].res = NoResponse
                /\ invs[i].errors = <<>>
                /\ Len(terminals) = (IF Done(i) THEN 1 ELSE 0)
                /\ failed # <<>> =>
                     /\ \A k \in 1..Len(log) :
                            log[k].kind = "parse" =>
                                SlotIndex(log[k].slot) <= SlotIndex(failed[1])
                     /\ Done(i) =>
                          /\ terminals[1].kind = "throw"
                          /\ terminals[1].error.name = ErrorNameOf[failed[1]]
                          /\ terminals[1].error.zodError = ParseOf(i, failed[1]).error
                /\ (Done(i) /\ failed = <<>>) =>
                     /\ terminals[1].kind = "next"
                     /\ terminals[1].args = <<>>

\* C5 witness: params passed, query and body would both fail, and an
\* InvalidQueryError was raised with body never parsed.
C5_Witness ==
    \E i \in Invocations :
        /\ Done(i) /\ options.throwErrors
        /\ Succeeds(i, "params")
        /\ FailedSlots(i) = <<"query", "body">>
        /\ CountKind(i, "throw") = 1
        /\ EventsOfKind(i, "throw")[1].error.name = "InvalidQueryError"
        /\ CountKind(i, "parse") = 2

\* C6: when every configured slot's parse succeeds (also when no slot is
\* configured), under every combination of options the continuation is
\* invoked exactly once with no argument, no response is written, no
\* responder is called and no error is raised.
C6_ValidRequestProceeds ==
    \A i \in Invocations :
        (Done(i) /\ \A s \in SlotSet : ~Fails(i, s)) =>
            LET terminals == Terminals(i)
            IN  /\ Len(terminals) = 1
                /\ terminals[1].kind = "next"
                /\ terminals[1].args = <<>>
                /\ invs[i].res = NoResponse
                /\ invs[i].errors = <<>>

\* C6 witness: a request that passes two configured schemas under one set
\* of options and a request handled with no schema configured under another.
C6_Witness ==
    \E i \in Invocations :
        /\ Done(i)
        /\ FailedSlots(i) = <<>>
        /\ CountKind(i, "next") = 1
        /\ \/ /\ Configured("params") /\ Configured("body") /\ ~Configured("query")
              /\ invs[i].raw["query"] = "42"
              /\ options.passErrorToNext /\ options.sendErrors
           \/ /\ \A s \in SlotSet : ~Configured(s)
              /\ invs[i].raw["body"] = "42"
              /\ options.throwErrors

\* What a terminal entry of the log is: the continuation with no argument,
\* the continuation with the error list, a responder call, a raised error.
ActionClass(ev) ==
    CASE ev.kind = "throw" -> "raise"
      [] ev.kind = "next" /\ ev.args # <<>> -> "forward"
      [] ev.kind = "next" /\ ev.args = <<>> -> "proceed"
      [] ev.kind \in {"send", "custom"} -> "respond"

\* The failure action the options select.
FailureAction ==
    IF options.throwErrors THEN "raise"
    ELSE IF options.passErrorToNext THEN "forward"
    ELSE "respond"

\* C7: an invocation takes no terminal action before it completes and
\* exactly one when it completes; when a configured slot fails that action
\* is never the continuation with no argument, and it is the one the
\* options select (raise, forward, respond) whichever slot failed.
C7_OneTerminalAction ==
    \A i \in Invocations :
        LET terminals == Terminals(i)
        IN  IF Done(i)
            THEN /\ Len(terminals) = 1
                 /\ ActionClass(terminals[1]) =
                      (IF \E s \in SlotSet : Fails(i, s) THEN FailureAction ELSE "proceed")
            ELSE terminals = <<>>

\* C7 witness: under the same options two requests failed in different
\* slots and both were answered by a responder call.
C7_Witness ==
    \E i, j \in Invocations :
        /\ Done(i) /\ Done(j)
        /\ FailedSlots(i) = <<"params">>
        /\ FailedSlots(j) = <<"body">>
        /\ ActionClass(Terminals(i)[1]) = "respond"
        /\ ActionClass(Terminals(j)[1]) = "respond"

ParseCalls(i) == EventsOfKind(i, "parse")

\* C8: in the async variants each configured slot is parsed at most once,
\* parses are called in the order params, query, body, at most one parse is
\* in flight at any time (a parse call is directly followed by its own
\* settling, or is the last thing the suspended handler did), and with
\* throwErrors unset every configured slot has been parsed before any
\* terminal action.
C8_SequentialParses ==
    variant \in AsyncVariants =>
        \A i \in Invocations :
            LET log == invs[i].log
                calls == ParseCalls(i)
            IN  /\ \A a \in 1..Len(calls) :
                       /\ Configured(calls[a].slot)
                       /\ a > 1 => SlotIndex(calls[a - 1].slot) < SlotIndex(calls[a].slot)
                /\ \A k \in 1..Len(log) :
                       /\ log[k].kind = "parse" =>
                              IF k = Len(log)
                              THEN invs[i].pc = "await"
                              ELSE log[k + 1].kind = "settled" /\ log[k + 1].slot = log[k].slot
                       /\ log[k].kind = "settled" =>
                              k > 1 /\ log[k - 1].kind = "parse" /\ log[k - 1].slot = log[k].slot
                       /\ (~options.throwErrors /\ IsTerminal(log[k])) =>
                              \A s \in SlotSet : Configured(s) => SettledBefore(i, s, k)
                /\ invs[i].pc = "await" => (log # <<>> /\ log[Len(log)].kind = "parse")

\* C8 witness: an async handler with three schemas and throwErrors unset
\* completed after params failed and query and body were still parsed.
C8_Witness ==
    \E i \in Invocations :
        /\ variant \in AsyncVariants
        /\ ~options.throwErrors
        /\ \A s \in SlotSet : Configured(s)
        /\ Fails(i, "params")
        /\ Done(i)
        /\ Len(ParseCalls(i)) = 3
        /\ CountKind(i, "settled") = 3

\* C9 (accumulators): in the async variants the accumulator of every
\* invocation holds only failures of its own request, in order.
C9_OwnErrorsOnly ==
    variant \in AsyncVariants =>
        \A i \in Invocations : IsPrefix(invs[i].errors, ExpectedErrors(i))

\* C9 (steps): the captured configuration never changes; in the async
\* variants an invocation that completes, whatever other invocations are
\* suspended around it, completes in the state its request reaches when
\* handled alone, and a completed invocation is never touched again.
C9_Step ==
    /\ schemas' = schemas /\ options' = options /\ variant' = variant
    /\ variant \in AsyncVariants =>
           \A i \in Invocations :
               IF invs[i].pc = "done"
               THEN invs'[i] = invs[i]
               ELSE invs'[i].pc = "done" => invs'[i] = HandledAlone(invs'[i].raw)

\* C9: interleaved invocations of one async middleware instance each end
\* with the outcome (terminal action, error list content and order,
\* request fields) of the request handled alone; the accumulator is per
\* invocation and the captured schemas and options are never modified.
C9_NoInterference ==
    /\ []C9_OwnErrorsOnly
    /\ [][C9_Step]_vars

\* C9 witness: two invocations of one async instance are suspended at the
\* same time, each past its first parse, with different accumulated errors.
C9_Witness ==
    \E i, j \in Invocations :
        /\ variant \in AsyncVariants
        /\ invs[i].pc = "await" /\ invs[j].pc = "await"
        /\ invs[i].awaiting = 3 /\ invs[j].awaiting = 2
        /\ invs[i].errors = ExpectedErrors(i) /\ Len(invs[i].errors) = 2
        /\ invs[j].errors = <<>>

\* C10: in processRequest and processRequestAsync a request field differs
\* from the raw input only when its slot is configured and its parse
\* succeeded, and then it is the parsed output; there is no rollback: at the
\* moment of the terminal action (response, forwarded list, raised error)
\* and afterwards every slot whose parse had succeeded holds its parsed
\* output and every other field holds the raw input.
C10_FieldsChangeOnlyOnSuccess ==
    variant \in ProcessVariants =>
        \A i \in Invocations : \A s \in SlotSet :
            LET log == invs[i].log
            IN  IF Succeeds(i, s)
                THEN /\ invs[i].req[s] =
                          (IF SettledBefore(i, s, Len(log) + 1)
                           THEN ParseOf(i, s).data
                           ELSE invs[i].raw[s])
                     /\ Done(i) =>
                          log[Len(log)].req[s] =
                              (IF SettledBefore(i, s, Len(log))
                               THEN ParseOf(i, s).data
                               ELSE invs[i].raw[s])
                ELSE /\ invs[i].req[s] = invs[i].raw[s]
                     /\ Done(i) => log[Len(log)].req[s] = invs[i].raw[s]

\* C10 witness: params succeeded and was coerced, body failed later, and at
\* the raised error or the response params is still the coerced value while
\* body and the unconfigured query keep the raw input.
C10_Witness ==
    \E i \in Invocations :
        /\ variant \in ProcessVariants
        /\ Done(i)
        /\ Succeeds(i, "params") /\ ~Configured("query") /\ Fails(i, "body")
        /\ invs[i].raw = [params |-> "42", query |-> "42", body |-> ""]
        /\ Terminals(i)[1].kind \in {"throw", "send"}
        /\ Terminals(i)[1].req = [params |-> "num:42", query |-> "42", body |-> ""]

====
